---- MODULE Spec2Model ----
\* State-machine model of src/app.py: the upload validation of main_app, the
\* transcription pipeline transcribe_video (audio extraction, segmentation,
\* per-segment recognition, transcript assembly, temporary-file cleanup) and
\* the subtitle formatter create_srt_content.
\*
\* Python strings are modelled as sequences of one-character strings, so that
\* strip, join, split and lower are computed character by character.
EXTENDS Integers, Sequences, FiniteSets, TLC

VARIABLES
    pc,               \* position of the control flow of main_app / transcribe_video
    uploaded,         \* the uploaded file: [size, ext] (ext = os.path.splitext(name)[1])
    chunk_duration,   \* the slider value, seconds
    temp_audio,       \* state of the temporary .wav file
    temp_video,       \* state of the temporary copy of the uploaded video
    unlinked,         \* sequence of the os.unlink calls made, in order
    progress,         \* sequence of the values passed to progress_callback
    extract_outcome,  \* how the audio extraction of the run ended
    split_in,         \* under SpecSplit: whether from_wav loaded the waveform, and how
                      \* split_on_silence ended
    audio_len,        \* len(audio) in milliseconds of the extracted waveform
    audio_chunks,     \* the list returned by split_audio_into_chunks
    i,                \* loop index of the segment loop
    outcome,          \* how the last recognition attempt ended
    attempts,         \* sequence of the segment indexes passed to transcribe_audio_chunk
    transcript_parts, \* list of the stripped non-empty texts
    full_transcript,  \* " ".join(transcript_parts), once computed
    retval,           \* value of the return statement of transcribe_video
    transcript,       \* main_app's local: the value transcribe_video returned
    ui,               \* what main_app displays
    srt_content       \* sequence of the caption blocks built by create_srt_content

vars == <<pc, uploaded, chunk_duration, temp_audio, temp_video, unlinked, progress,
          extract_outcome, split_in, audio_len, audio_chunks, i, outcome, attempts,
          transcript_parts, full_transcript, retval, transcript, ui, srt_content>>

-----------------------------------------------------------------------------
\* Bounds of the model.

\* Largest number of segments a run is given (silence-based or fixed-length).
MaxSegments == 3
\* Largest number of spaces the recogniser puts before and after a returned text.
MaxPad == 1
\* Longest generated transcript handed to create_srt_content.
MaxSrtLen == 5
\* Number of ". " separators of the long transcript handed to create_srt_content.
LongSeparators == 5999
\* Longest waveform handed to split_audio_into_chunks alone, in units of 5 seconds.
MaxAudioUnits == 24

-----------------------------------------------------------------------------
\* Strings.

Min(S) == CHOOSE x \in S : \A y \in S : x <= y
Max(S) == CHOOSE x \in S : \A y \in S : x >= y

\* str.isspace of one character
IsSpace(c) == c \in {" ", "\t", "\n", "\r"}

\* str.strip(): drop the leading and the trailing whitespace
Strip(s) ==
    LET keep == {k \in 1..Len(s) : ~IsSpace(s[k])}
    IN  IF keep = {} THEN <<>> ELSE SubSeq(s, Min(keep), Max(keep))

\* a string is blank when strip() leaves nothing (falsy in Python)
Blank(s) == Strip(s) = <<>>

\* the optional value of Python: None or a string
None == [isNone |-> TRUE, str |-> <<>>]
Some(s) == [isNone |-> FALSE, str |-> s]
\* truthiness of an Optional[str]
Truthy(v) == ~v.isNone /\ v.str # <<>>

-----------------------------------------------------------------------------
\* Configuration and constants.

SUPPORTED_VIDEO_FORMATS ==
    { <<".", "m", "p", "4">>, <<".", "a", "v", "i">>, <<".", "m", "o", "v">>,
      <<".", "m", "k", "v">>, <<".", "w", "e", "b", "m">>, <<".", "f", "l", "v">>,
      <<".", "m", "4", "v">> }

MAX_FILE_SIZE == 200 * 1024 * 1024

\* the values of the chunk-duration slider: 10..60 in steps of 5
ChunkDurations == {d \in 10..60 : (d - 10) % 5 = 0}

-----------------------------------------------------------------------------
\* main_app: validation of the uploaded file.

UpperLetters == <<"A", "B", "C", "D", "E", "F", "G", "H", "I", "J", "K", "L", "M",
                  "N", "O", "P", "Q", "R", "S", "T", "U", "V", "W", "X", "Y", "Z">>
LowerLetters == <<"a", "b", "c", "d", "e", "f", "g", "h", "i", "j", "k", "l", "m",
                  "n", "o", "p", "q", "r", "s", "t", "u", "v", "w", "x", "y", "z">>

\* str.lower() of one character
LowerChar(c) ==
    IF \E k \in 1..26 : UpperLetters[k] = c
    THEN LowerLetters[CHOOSE k \in 1..26 : UpperLetters[k] = c]
    ELSE c

\* str.lower()
Lower(s) == [k \in 1..Len(s) |-> LowerChar(s[k])]

\* the file sizes an upload is drawn from, in bytes
FileSizes == {MAX_FILE_SIZE, MAX_FILE_SIZE + 1}

\* the extensions an upload is drawn from (os.path.splitext(name)[1])
FileExtensions ==
    { <<".", "m", "p", "4">>, <<".", "M", "k", "V">>, <<".", "t", "x", "t">>,
      <<".", "M", "P", "3">>, <<>> }

\* mutant of TooLarge: the limit is compared one byte too high
TooLargeOffByOne(file_size) == file_size > MAX_FILE_SIZE + 1
\* file_size > MAX_FILE_SIZE
TooLarge(file_size) == file_size > MAX_FILE_SIZE

\* file_extension not in SUPPORTED_VIDEO_FORMATS, file_extension lower-cased
UnsupportedFormat(ext) == Lower(ext) \notin SUPPORTED_VIDEO_FORMATS

-----------------------------------------------------------------------------
\* extract_audio_from_video

\* how VideoFileClip / write_audiofile end
ExtractOutcomes == {"ok", "no_audio", "decode_error"}

\* mutant of ExtractReturn: a video without audio stream is reported as extracted
ExtractReturnIgnoresNoAudio(oc) == oc \in {"ok", "no_audio"}
\* the value extract_audio_from_video returns
ExtractReturn(oc) == oc = "ok"

\* the lengths in milliseconds of the extracted waveform a run is drawn from:
\* every multiple of the chunk length and one millisecond more, up to
\* MaxSegments slices
AudioLengths(chunk_length_ms) ==
    {L \in {k * chunk_length_ms + r : k \in 0..MaxSegments,
                                      r \in {0, 1}} :
        L <= MaxSegments * chunk_length_ms}

-----------------------------------------------------------------------------
\* split_audio_into_chunks

\* how split_on_silence ends: it raises, or it returns count segments
SilenceOutcomes ==
    {[raised |-> TRUE, count |-> 0]} \cup
    {[raised |-> FALSE, count |-> k] : k \in 0..MaxSegments}

\* the segments split_on_silence returned; their boundaries are the library's
SilenceChunks(count) == [k \in 1..count |-> [by |-> "silence", ord |-> k]]

\* mutant of FixedSlices: the last, shorter slice is dropped
FixedSlicesDropsRemainder(L, chunk_length_ms) ==
    [k \in 1..(L \div chunk_length_ms) |->
        [by |-> "fixed", lo |-> (k - 1) * chunk_length_ms, hi |-> k * chunk_length_ms]]
\* [audio[i:i+chunk_length_ms] for i in range(0, len(audio), chunk_length_ms)]
\* a slice of a waveform of length L ends at min(i + chunk_length_ms, L)
FixedSlices(L, chunk_length_ms) ==
    [k \in 1..((L + chunk_length_ms - 1) \div chunk_length_ms) |->
        [by |-> "fixed",
         lo |-> (k - 1) * chunk_length_ms,
         hi |-> IF k * chunk_length_ms < L THEN k * chunk_length_ms ELSE L]]

\* len(chunks) <= 1, or split_on_silence raised
UseFixedLength(sil) == sil.raised \/ sil.count <= 1

\* the list split_audio_into_chunks returns; [] when the waveform cannot be loaded
split_audio_into_chunks(loaded, L, sil, chunk_length_ms) ==
    IF ~loaded THEN <<>>
    ELSE IF UseFixedLength(sil) THEN FixedSlices(L, chunk_length_ms)
    ELSE SilenceChunks(sil.count)

-----------------------------------------------------------------------------
\* transcribe_audio_chunk

\* how one recognition attempt ends: recognize_google returns a text, or raises
\* UnknownValueError, RequestError, or another Exception
RecognitionOutcomes == {"text", "unknown_value", "request_error", "exception"}

Spaces(n) == [k \in 1..n |-> " "]

\* the texts recognize_google is drawn from: no word, one word, two words one or
\* two spaces apart, each with up to MaxPad spaces before and after
Texts ==
    {Spaces(l) \o core \o Spaces(r) :
        l \in 0..MaxPad, r \in 0..MaxPad,
        core \in {<<>>, <<"a">>, <<"a", " ", "a">>, <<"a", " ", " ", "a">>}}

\* the string transcribe_audio_chunk returns
transcribe_audio_chunk(oc, recognized) == IF oc = "text" THEN recognized ELSE <<>>

-----------------------------------------------------------------------------
\* transcribe_video: helpers

\* mutant of AppendPart: the stripped text is appended even when it is empty
AppendPartKeepsEmpty(parts, t) == Append(parts, Strip(t))
\* if text.strip(): transcript_parts.append(text.strip())
AppendPart(parts, t) == IF Strip(t) # <<>> THEN Append(parts, Strip(t)) ELSE parts

\* " ".join(parts)
RECURSIVE Join(_)
Join(parts) ==
    IF parts = <<>> THEN <<>>
    ELSE IF Len(parts) = 1 THEN parts[1]
    ELSE parts[1] \o <<" ">> \o Join(Tail(parts))

\* mutant of SegmentProgress: the segment is counted before it is processed
SegmentProgressCountsCurrent(idx, total_chunks) == 30 + ((60 * (idx + 1)) \div total_chunks)
\* progress = 30 + (60 * i // total_chunks)
SegmentProgress(idx, total_chunks) == 30 + ((60 * idx) \div total_chunks)

\* mutant of NextIndex: a segment whose recognition failed is tried again
NextIndexRetriesFailure(idx, oc) == IF oc = "text" THEN idx + 1 ELSE idx
\* enumerate(audio_chunks) moves to the next segment whatever the attempt returned
NextIndex(idx, oc) == idx + 1

\* mutant of ReturnValue: the joined transcript is returned as it is
ReturnValueUnchecked(joined) == Some(joined)
\* return full_transcript if full_transcript.strip() else None
ReturnValue(joined) == IF Strip(joined) # <<>> THEN Some(joined) ELSE None

-----------------------------------------------------------------------------
\* create_srt_content

\* the separator is found at position p of s
SeparatorAt(s, p) == p < Len(s) /\ s[p] = "." /\ s[p + 1] = " "

\* the positions in lo..hi where ". " starts, in increasing order. An occurrence
\* of ". " cannot overlap another one, so the occurrences str.split finds from
\* left to right are all of them.
RECURSIVE SeparatorPositions(_, _, _)
SeparatorPositions(s, lo, hi) ==
    IF lo > hi THEN <<>>
    ELSE IF lo = hi THEN (IF SeparatorAt(s, lo) THEN <<lo>> ELSE <<>>)
    ELSE LET mid == (lo + hi) \div 2
         IN  SeparatorPositions(s, lo, mid) \o SeparatorPositions(s, mid + 1, hi)

\* transcript.split('. '): the fragments between the separators, empty ones kept
SplitOnPeriodSpace(s) ==
    LET at == SeparatorPositions(s, 1, Len(s))
        n  == Len(at)
    IN  [k \in 1..(n + 1) |->
            SubSeq(s, IF k = 1 THEN 1 ELSE at[k - 1] + 2,
                      IF k = n + 1 THEN Len(s) ELSE at[k] - 1)]

DigitChars == <<"0", "1", "2", "3", "4", "5", "6", "7", "8", "9">>

\* str(n) of a natural number
RECURSIVE Decimal(_)
Decimal(n) ==
    IF n < 10 THEN <<DigitChars[n + 1]>>
    ELSE Decimal(n \div 10) \o <<DigitChars[(n % 10) + 1]>>

\* f"{n:02d}": the decimal digits, padded with zeros to a width of at least 2
Format02d(n) == IF n < 10 THEN <<"0">> \o Decimal(n) ELSE Decimal(n)

\* f"{hours:02d}:{minutes:02d}:{seconds:02d},000" of a time in seconds
SrtTimestamp(t) ==
    Format02d(t \div 3600) \o <<":">> \o Format02d((t % 3600) \div 60) \o <<":">>
        \o Format02d(t % 60) \o <<",", "0", "0", "0">>

\* mutant of FragmentStart: the first caption starts one interval late
FragmentStartShifted(idx, duration) == (idx + 1) * duration
\* start_time = i * chunk_duration
FragmentStart(idx, duration) == idx * duration

\* end_time = (i + 1) * chunk_duration
FragmentEnd(idx, duration) == (idx + 1) * duration

\* the caption block of the fragment at index idx: the sequence-number line, the
\* two timestamps of the time-range line, and the text line
CaptionBlock(idx, line, duration) ==
    [num   |-> Decimal(idx + 1),
     start |-> SrtTimestamp(FragmentStart(idx, duration)),
     end   |-> SrtTimestamp(FragmentEnd(idx, duration)),
     text  |-> Strip(line) \o <<".">>]

\* the caption blocks create_srt_content writes, in order: one per fragment with
\* a non-empty strip()
create_srt_content(t, duration) ==
    LET lines == SplitOnPeriodSpace(t)
        kept  == SelectSeq([k \in 1..Len(lines) |-> k],
                           LAMBDA k : Strip(lines[k]) # <<>>)
    IN  [j \in 1..Len(kept) |-> CaptionBlock(kept[j] - 1, lines[kept[j]], duration)]

-----------------------------------------------------------------------------
\* The state machine of one run of main_app.

NoFile == [size |-> -1, ext |-> <<>>]
NoSplitInput == [loaded |-> FALSE, silence |-> [raised |-> FALSE, count |-> 0]]

Init ==
    /\ pc = "upload"
    /\ uploaded = NoFile
    /\ chunk_duration = 30
    /\ temp_audio = "absent"
    /\ temp_video = "absent"
    /\ unlinked = <<>>
    /\ progress = <<>>
    /\ extract_outcome = "none"
    /\ split_in = NoSplitInput
    /\ audio_len = -1
    /\ audio_chunks = <<>>
    /\ i = 0
    /\ outcome = "none"
    /\ attempts = <<>>
    /\ transcript_parts = <<>>
    /\ full_transcript = None
    /\ retval = None
    /\ transcript = None
    /\ ui = "form"
    /\ srt_content = <<>>

\* main_app, the sidebar and the checks of the uploaded file: the size check
\* first, then the extension check; each reports an error and returns
Validate ==
    /\ pc = "upload"
    /\ \E size \in FileSizes, ext \in FileExtensions, d \in ChunkDurations :
        /\ uploaded' = [size |-> size, ext |-> ext]
        /\ chunk_duration' = d
        /\ IF TooLarge(size)
           THEN ui' = "size_error" /\ pc' = "rejected"
           ELSE IF UnsupportedFormat(ext)
                THEN ui' = "format_error" /\ pc' = "rejected"
                ELSE ui' = "file_accepted" /\ pc' = "accepted"
    /\ UNCHANGED <<temp_audio, temp_video, unlinked, progress, extract_outcome,
                   split_in, audio_len, audio_chunks, i, outcome, attempts,
                   transcript_parts, full_transcript, retval, transcript, srt_content>>

\* the start button: main_app calls transcribe_video, which creates the two
\* temporary files before it enters its try block
StartTranscription ==
    /\ pc = "accepted"
    /\ temp_audio' = "present"
    /\ temp_video' = "present"
    /\ ui' = "processing"
    /\ pc' = "report10"
    /\ UNCHANGED <<uploaded, chunk_duration, unlinked, progress, extract_outcome,
                   split_in, audio_len, audio_chunks, i, outcome, attempts,
                   transcript_parts, full_transcript, retval, transcript, srt_content>>

\* progress_callback(value, message): the value is passed; the callback returns,
\* or it raises and the except clause of transcribe_video takes over
Report(value, next_pc) ==
    /\ progress' = Append(progress, value)
    /\ \E raised \in BOOLEAN : pc' = IF raised THEN "except" ELSE next_pc

Report10 ==
    /\ pc = "report10"
    /\ Report(10, "extract")
    /\ UNCHANGED <<uploaded, chunk_duration, temp_audio, temp_video, unlinked,
                   extract_outcome, split_in, audio_len, audio_chunks, i, outcome,
                   attempts, transcript_parts, full_transcript, retval, transcript, ui,
                   srt_content>>

\* if not extract_audio_from_video(...): return None
Extract ==
    /\ pc = "extract"
    /\ \E oc \in ExtractOutcomes :
        /\ extract_outcome' = oc
        /\ IF ExtractReturn(oc)
           THEN /\ \E L \in AudioLengths(chunk_duration * 1000) : audio_len' = L
                /\ pc' = "report20"
                /\ UNCHANGED retval
           ELSE /\ retval' = None
                /\ pc' = "finally"
                /\ UNCHANGED audio_len
    /\ UNCHANGED <<uploaded, chunk_duration, temp_audio, temp_video, unlinked, progress,
                   split_in, audio_chunks, i, outcome, attempts, transcript_parts,
                   full_transcript, transcript, ui, srt_content>>

Report20 ==
    /\ pc = "report20"
    /\ Report(20, "split")
    /\ UNCHANGED <<uploaded, chunk_duration, temp_audio, temp_video, unlinked,
                   extract_outcome, split_in, audio_len, audio_chunks, i, outcome,
                   attempts, transcript_parts, full_transcript, retval, transcript, ui,
                   srt_content>>

\* audio_chunks = split_audio_into_chunks(...); if not audio_chunks: return None;
\* otherwise the segment loop starts with empty transcript_parts
Split ==
    /\ pc = "split"
    /\ \E loaded \in BOOLEAN, sil \in SilenceOutcomes :
        LET chunks == split_audio_into_chunks(loaded, audio_len, sil, chunk_duration * 1000)
        IN  /\ audio_chunks' = chunks
            /\ IF chunks = <<>>
               THEN retval' = None /\ pc' = "finally"
               ELSE UNCHANGED retval /\ pc' = "report_segment"
    /\ i' = 0
    /\ transcript_parts' = <<>>
    /\ UNCHANGED <<uploaded, chunk_duration, temp_audio, temp_video, unlinked, progress,
                   extract_outcome, split_in, audio_len, outcome, attempts,
                   full_transcript, transcript, ui, srt_content>>

\* top of the loop body: the progress of segment i of total_chunks
ReportSegment ==
    /\ pc = "report_segment"
    /\ Report(SegmentProgress(i, Len(audio_chunks)), "recognize")
    /\ UNCHANGED <<uploaded, chunk_duration, temp_audio, temp_video, unlinked,
                   extract_outcome, split_in, audio_len, audio_chunks, i, outcome,
                   attempts, transcript_parts, full_transcript, retval, transcript, ui,
                   srt_content>>

\* text = transcribe_audio_chunk(chunk, language), the append of the stripped
\* text, the pause, and the move of the loop to the next segment or past the loop
Recognize ==
    /\ pc = "recognize"
    /\ \E oc \in RecognitionOutcomes, recognized \in Texts :
        LET returned == transcribe_audio_chunk(oc, recognized)
            next     == NextIndex(i, oc)
        IN  /\ outcome' = oc
            /\ attempts' = Append(attempts, i)
            /\ transcript_parts' = AppendPart(transcript_parts, returned)
            /\ i' = next
            /\ pc' = IF next < Len(audio_chunks) THEN "report_segment" ELSE "report95"
    /\ UNCHANGED <<uploaded, chunk_duration, temp_audio, temp_video, unlinked, progress,
                   extract_outcome, split_in, audio_len, audio_chunks, full_transcript,
                   retval, transcript, ui, srt_content>>

Report95 ==
    /\ pc = "report95"
    /\ Report(95, "join")
    /\ UNCHANGED <<uploaded, chunk_duration, temp_audio, temp_video, unlinked,
                   extract_outcome, split_in, audio_len, audio_chunks, i, outcome,
                   attempts, transcript_parts, full_transcript, retval, transcript, ui,
                   srt_content>>

\* full_transcript = " ".join(transcript_parts), the last progress report, and
\* the return statement
JoinAndReturn ==
    /\ pc = "join"
    /\ full_transcript' = Some(Join(transcript_parts))
    /\ progress' = Append(progress, 100)
    /\ \E raised \in BOOLEAN :
        IF raised
        THEN pc' = "except" /\ UNCHANGED retval
        ELSE pc' = "finally" /\ retval' = ReturnValue(Join(transcript_parts))
    /\ UNCHANGED <<uploaded, chunk_duration, temp_audio, temp_video, unlinked,
                   extract_outcome, split_in, audio_len, audio_chunks, i, outcome,
                   attempts, transcript_parts, transcript, ui, srt_content>>

\* except Exception: report the error, return None
Except ==
    /\ pc = "except"
    /\ retval' = None
    /\ pc' = "finally"
    /\ UNCHANGED <<uploaded, chunk_duration, temp_audio, temp_video, unlinked, progress,
                   extract_outcome, split_in, audio_len, audio_chunks, i, outcome,
                   attempts, transcript_parts, full_transcript, transcript, ui,
                   srt_content>>

\* try: os.unlink(temp_audio_path); os.unlink(temp_video_path) / except: pass
\* the second call is made only when the first one returned
UnlinkCalls(audio_deleted) == IF audio_deleted THEN <<"audio", "video">> ELSE <<"audio">>

\* the finally clause, then the return to main_app with the pending value
Cleanup ==
    /\ pc = "finally"
    /\ \E audio_deleted \in BOOLEAN, video_deleted \in BOOLEAN :
        LET calls == UnlinkCalls(audio_deleted)
        IN  /\ unlinked' = calls
            /\ temp_audio' = IF audio_deleted THEN "deleted" ELSE "present"
            /\ temp_video' = IF Len(calls) = 2 /\ video_deleted THEN "deleted" ELSE "present"
    /\ transcript' = retval
    /\ pc' = "returned"
    /\ UNCHANGED <<uploaded, chunk_duration, progress, extract_outcome, split_in,
                   audio_len, audio_chunks, i, outcome, attempts, transcript_parts,
                   full_transcript, retval, ui, srt_content>>

\* main_app after the call: if transcript: the result with its downloads, the SRT
\* content among them; else the error message
ShowResult ==
    /\ pc = "returned"
    /\ IF Truthy(transcript)
       THEN /\ ui' = "result"
            /\ srt_content' = create_srt_content(transcript.str, chunk_duration)
       ELSE /\ ui' = "no_text_error"
            /\ UNCHANGED srt_content
    /\ pc' = "done"
    /\ UNCHANGED <<uploaded, chunk_duration, temp_audio, temp_video, unlinked, progress,
                   extract_outcome, split_in, audio_len, audio_chunks, i, outcome,
                   attempts, transcript_parts, full_transcript, retval, transcript>>

Next ==
    \/ Validate
    \/ StartTranscription
    \/ Report10
    \/ Extract
    \/ Report20
    \/ Split
    \/ ReportSegment
    \/ Recognize
    \/ Report95
    \/ JoinAndReturn
    \/ Except
    \/ Cleanup
    \/ ShowResult

Spec == Init /\ [][Next]_vars

-----------------------------------------------------------------------------
\* create_srt_content as a function of its two arguments.

SrtAlphabet == {"a", ".", " "}

\* "Hello world. This is a test. Goodbye."
HelloTranscript ==
    << "H", "e", "l", "l", "o", " ", "w", "o", "r", "l", "d", ".",
       " ", "T", "h", "i", "s", " ", "i", "s", " ", "a", " ", "t",
       "e", "s", "t", ".", " ", "G", "o", "o", "d", "b", "y", "e",
       "." >>

\* ". " LongSeparators times, then one word: the last fragment is the only
\* non-blank one
LongTranscript ==
    [k \in 1..(2 * LongSeparators) |-> IF k % 2 = 1 THEN "." ELSE " "] \o <<"a">>

\* the transcripts create_srt_content is applied to
SrtTranscripts ==
    UNION {[1..n -> SrtAlphabet] : n \in 0..MaxSrtLen} \cup {HelloTranscript, LongTranscript}

InitSrt ==
    /\ pc = "srt_call"
    /\ uploaded = NoFile
    /\ chunk_duration \in ChunkDurations
    /\ temp_audio = "absent"
    /\ temp_video = "absent"
    /\ unlinked = <<>>
    /\ progress = <<>>
    /\ extract_outcome = "none"
    /\ split_in = NoSplitInput
    /\ audio_len = -1
    /\ audio_chunks = <<>>
    /\ i = 0
    /\ outcome = "none"
    /\ attempts = <<>>
    /\ transcript_parts = <<>>
    /\ full_transcript = None
    /\ retval = None
    /\ transcript \in {Some(t) : t \in SrtTranscripts}
    /\ ui = "form"
    /\ srt_content = <<>>

\* srt_content = create_srt_content(transcript, chunk_duration)
CreateSrt ==
    /\ pc = "srt_call"
    /\ srt_content' = create_srt_content(transcript.str, chunk_duration)
    /\ pc' = "srt_done"
    /\ UNCHANGED <<uploaded, chunk_duration, temp_audio, temp_video, unlinked, progress,
                   extract_outcome, split_in, audio_len, audio_chunks, i, outcome,
                   attempts, transcript_parts, full_transcript, retval, transcript, ui>>

NextSrt == CreateSrt

SpecSrt == InitSrt /\ [][NextSrt]_vars

-----------------------------------------------------------------------------
\* split_audio_into_chunks as a function of the waveform, the chunk length and
\* what the library calls do.

\* waveform lengths in milliseconds: the multiples of 5 seconds, one millisecond
\* more, and one millisecond less than the next multiple
SplitLengths ==
    {u * 5000 + r : u \in 0..MaxAudioUnits, r \in {0, 1, 4999}}

InitSplit ==
    /\ pc = "split_call"
    /\ uploaded = NoFile
    /\ chunk_duration \in ChunkDurations
    /\ temp_audio = "present"
    /\ temp_video = "present"
    /\ unlinked = <<>>
    /\ progress = <<>>
    /\ extract_outcome = "ok"
    /\ split_in \in {[loaded |-> l, silence |-> sil] : l \in BOOLEAN, sil \in SilenceOutcomes}
    /\ audio_len \in SplitLengths
    /\ audio_chunks = <<>>
    /\ i = 0
    /\ outcome = "none"
    /\ attempts = <<>>
    /\ transcript_parts = <<>>
    /\ full_transcript = None
    /\ retval = None
    /\ transcript = None
    /\ ui = "processing"
    /\ srt_content = <<>>

\* audio_chunks = split_audio_into_chunks(temp_audio_path, chunk_length_ms)
SplitCall ==
    /\ pc = "split_call"
    /\ audio_chunks' = split_audio_into_chunks(split_in.loaded, audio_len, split_in.silence,
                                               chunk_duration * 1000)
    /\ pc' = "split_done"
    /\ UNCHANGED <<uploaded, chunk_duration, temp_audio, temp_video, unlinked, progress,
                   extract_outcome, split_in, audio_len, i, outcome, attempts,
                   transcript_parts, full_transcript, retval, transcript, ui,
                   srt_content>>

NextSplit == SplitCall

SpecSplit == InitSplit /\ [][NextSplit]_vars

-----------------------------------------------------------------------------
\* Properties of create_srt_content (checked under SpecSrt).

IsDigit(c) == \E d \in 1..10 : DigitChars[d] = c
DigitValue(c) == (CHOOSE d \in 1..10 : DigitChars[d] = c) - 1

\* the number a sequence of decimal digits denotes
RECURSIVE DecimalValue(_)
DecimalValue(ds) ==
    IF ds = <<>> THEN 0
    ELSE 10 * DecimalValue(SubSeq(ds, 1, Len(ds) - 1)) + DigitValue(ds[Len(ds)])

AllDigits(ds) == \A k \in 1..Len(ds) : IsDigit(ds[k])

\* ts is <hours>:MM:SS,000 with hours written in hour_digits digits and
\* minutes and seconds in 0..59
WellFormedTime(ts, hour_digits) ==
    /\ Len(ts) = hour_digits + 10
    /\ AllDigits(SubSeq(ts, 1, hour_digits))
    /\ ts[hour_digits + 1] = ":"
    /\ AllDigits(SubSeq(ts, hour_digits + 2, hour_digits + 3))
    /\ ts[hour_digits + 4] = ":"
    /\ AllDigits(SubSeq(ts, hour_digits + 5, hour_digits + 6))
    /\ SubSeq(ts, hour_digits + 7, hour_digits + 10) = <<",", "0", "0", "0">>
    /\ DecimalValue(SubSeq(ts, hour_digits + 2, hour_digits + 3)) \in 0..59
    /\ DecimalValue(SubSeq(ts, hour_digits + 5, hour_digits + 6)) \in 0..59

\* the time in seconds a well-formed time denotes
TimeInSeconds(ts, hour_digits) ==
    3600 * DecimalValue(SubSeq(ts, 1, hour_digits))
        + 60 * DecimalValue(SubSeq(ts, hour_digits + 2, hour_digits + 3))
        + DecimalValue(SubSeq(ts, hour_digits + 5, hour_digits + 6))

\* the 1-based positions of the non-blank fragments of the transcript, in order
NonBlankFragments(t) ==
    LET lines == SplitOnPeriodSpace(t)
    IN  SelectSeq([k \in 1..Len(lines) |-> k], LAMBDA k : ~Blank(lines[k]))

\* the text of a block ends with exactly one period
SinglePeriod(line) ==
    /\ Len(line) >= 1
    /\ line[Len(line)] = "."
    /\ Len(line) >= 2 => line[Len(line) - 1] # "."

\* C1: for the transcript "Hello world. This is a test. Goodbye." and chunk
\* duration 30, create_srt_content produces exactly 3 blocks numbered 1, 2, 3 with
\* the times 00:00:00,000 --> 00:00:30,000, 00:00:30,000 --> 00:01:00,000 and
\* 00:01:00,000 --> 00:01:30,000, and every text line ends with a single period.
C1_HelloThreeBlocksSinglePeriod ==
    (pc = "srt_done" /\ transcript.str = HelloTranscript /\ chunk_duration = 30) =>
        /\ Len(srt_content) = 3
        /\ [k \in 1..3 |-> srt_content[k].num] = << <<"1">>, <<"2">>, <<"3">> >>
        /\ [k \in 1..3 |-> srt_content[k].start] =
              << <<"0", "0", ":", "0", "0", ":", "0", "0", ",", "0", "0", "0">>,
                 <<"0", "0", ":", "0", "0", ":", "3", "0", ",", "0", "0", "0">>,
                 <<"0", "0", ":", "0", "1", ":", "0", "0", ",", "0", "0", "0">> >>
        /\ [k \in 1..3 |-> srt_content[k].end] =
              << <<"0", "0", ":", "0", "0", ":", "3", "0", ",", "0", "0", "0">>,
                 <<"0", "0", ":", "0", "1", ":", "0", "0", ",", "0", "0", "0">>,
                 <<"0", "0", ":", "0", "1", ":", "3", "0", ",", "0", "0", "0">> >>
        /\ \A k \in 1..3 : SinglePeriod(srt_content[k].text)

\* the blocks are those of the non-blank fragments, in order; the block of the
\* fragment at 0-based index idx is numbered idx + 1 and runs from idx * D to
\* (idx + 1) * D seconds; HourDigits(ts) is the width the hours are read with
SrtBlocksMatchFragments(HourDigits(_)) ==
    LET kept == NonBlankFragments(transcript.str)
        D    == chunk_duration
    IN  /\ Len(srt_content) = Len(kept)
        /\ \A j \in 1..Len(srt_content) :
            LET b   == srt_content[j]
                idx == kept[j] - 1
            IN  /\ AllDigits(b.num) /\ b.num[1] # "0" /\ DecimalValue(b.num) = idx + 1
                /\ WellFormedTime(b.start, HourDigits(b.start))
                /\ WellFormedTime(b.end, HourDigits(b.end))
                /\ TimeInSeconds(b.start, HourDigits(b.start)) = idx * D
                /\ TimeInSeconds(b.end, HourDigits(b.end)) = (idx + 1) * D
        /\ \A j \in 1..(Len(srt_content) - 1) :
            LET b == srt_content[j]
                c == srt_content[j + 1]
            IN  /\ DecimalValue(b.num) < DecimalValue(c.num)
                /\ TimeInSeconds(b.end, HourDigits(b.end))
                      <= TimeInSeconds(c.start, HourDigits(c.start))

TwoHourDigits(ts) == 2
\* at least two digits, and no more than the hours need
NeededHourDigits(ts) ==
    LET w == Len(ts) - 10
    IN  IF w > 2 /\ ts[1] # "0" THEN w ELSE 2

\* C9 as stated: one block per non-blank fragment, the block of fragment i
\* numbered i + 1, from i * D to (i + 1) * D seconds, each time written as
\* HH:MM:SS,000 (two hour digits) with minutes and seconds in 0..59, in
\* increasing order, no block ending after the next one starts.
C9_TimesAreHHMMSS ==
    pc = "srt_done" => SrtBlocksMatchFragments(TwoHourDigits)

\* C9 amended: as C9, with the hours written in two digits below 100 hours and
\* in as many digits as they need from 100 hours on.
C9_TimesWithHoursOfAnyWidth ==
    pc = "srt_done" => SrtBlocksMatchFragments(NeededHourDigits)

\* a block whose end time reaches 100 hours, after LongSeparators blank fragments
C9_Witness ==
    /\ pc = "srt_done"
    /\ transcript.str = LongTranscript
    /\ Len(srt_content) = 1
    /\ Len(srt_content[1].end) > 12

-----------------------------------------------------------------------------
\* Properties of the pipeline (checked under Spec).

\* the control flow has left the try block of transcribe_video
AfterTry == pc \in {"finally", "returned", "done"}

\* the positions of the transcript where Join put a separating space
RECURSIVE JoinPositions(_, _)
JoinPositions(parts, offset) ==
    IF Len(parts) <= 1 THEN {}
    ELSE {offset + Len(parts[1]) + 1}
            \cup JoinPositions(Tail(parts), offset + Len(parts[1]) + 1)

DoubleSpaceAt(t, p) == p < Len(t) /\ t[p] = " " /\ t[p + 1] = " "

\* C2 as stated: the assembled transcript has no leading space, no trailing
\* space and no two consecutive spaces, whatever texts the transcriber returned.
C2_NoLeadingTrailingDoubleSpace ==
    ~full_transcript.isNone =>
        LET t == full_transcript.str
        IN  /\ t # <<>> => (t[1] # " " /\ t[Len(t)] # " ")
            /\ \A p \in 1..Len(t) : ~DoubleSpaceAt(t, p)

\* C2 amended: the assembled transcript has no leading and no trailing
\* whitespace, and two consecutive spaces occur in it only inside the stripped
\* text of one segment, never next to a space the join put in.
C2_JoinAddsNoExtraSpace ==
    ~full_transcript.isNone =>
        LET t     == full_transcript.str
            joins == JoinPositions(transcript_parts, 0)
        IN  /\ t # <<>> => (~IsSpace(t[1]) /\ ~IsSpace(t[Len(t)]))
            /\ \A p \in 1..Len(t) :
                DoubleSpaceAt(t, p) => (p \notin joins /\ p + 1 \notin joins)
            /\ (\A k \in 1..Len(transcript_parts) :
                    \A p \in 1..Len(transcript_parts[k]) :
                        ~DoubleSpaceAt(transcript_parts[k], p))
                  => \A p \in 1..Len(t) : ~DoubleSpaceAt(t, p)

\* three segments, one of them without text, the two others joined
C2_Witness ==
    /\ ~full_transcript.isNone
    /\ Len(attempts) = 3
    /\ Len(transcript_parts) = 2
    /\ \E p \in 1..Len(full_transcript.str) : DoubleSpaceAt(full_transcript.str, p)

\* C3: whenever transcribe_video has terminated, on every path, the deletion of
\* both temporary files has been attempted, even when one deletion failed, and
\* the value returned is the one the try block decided.
C3_BothDeletionsAttempted ==
    pc \in {"returned", "done"} =>
        /\ \E k \in 1..Len(unlinked) : unlinked[k] = "audio"
        /\ \E k \in 1..Len(unlinked) : unlinked[k] = "video"
        /\ transcript = retval

\* the attempts made so far are the segments 0, 1, 2, ... in order, each once,
\* and past the loop all of them have been attempted
AttemptsInOrder ==
    /\ attempts = [k \in 1..Len(attempts) |-> k - 1]
    /\ Len(attempts) <= Len(audio_chunks)
    /\ pc \in {"report_segment", "recognize"} =>
          (i = Len(attempts) /\ i < Len(audio_chunks))
    /\ (pc \in {"report95", "join"} \/ ~full_transcript.isNone) =>
          (Len(audio_chunks) >= 1 /\ Len(attempts) = Len(audio_chunks))

\* a step that ends an attempt without text adds nothing to transcript_parts and
\* leads to the next segment, or to assembly after the last one
FailedAttemptGoesOn ==
    (pc = "recognize" /\ pc' # "recognize" /\ outcome' # "text") =>
        /\ transcript_parts' = transcript_parts
        /\ attempts' = Append(attempts, i)
        /\ IF i + 1 < Len(audio_chunks)
           THEN pc' = "report_segment" /\ i' = i + 1
           ELSE pc' = "report95"

\* C4: in a run over n >= 1 segments the recognition attempts are the segments
\* 0..n-1 in index order, each attempted once and none a second time, whatever
\* each attempt returned; a loop that is left normally has attempted all n; a
\* failed attempt contributes no text and the loop goes on to the next segment
\* and then to assembly.
C4_OneAttemptPerSegment == [](AttemptsInOrder) /\ [][FailedAttemptGoesOn]_vars

\* a run of three segments, the first two with text and the last one failed,
\* that went on to assembly
C4_Witness ==
    /\ pc = "done"
    /\ Len(audio_chunks) = 3
    /\ attempts = <<0, 1, 2>>
    /\ outcome = "exception"
    /\ Len(transcript_parts) = 2
    /\ ~full_transcript.isNone

\* C5: a string transcribe_video returns has a non-space character; when no
\* segment contributed text, or the joined transcript is blank, the run returns
\* None, and main_app shows the error instead of a result.
C5_NeverReturnsBlank ==
    /\ \A v \in {retval, transcript} :
          ~v.isNone => \E k \in 1..Len(v.str) : v.str[k] # " "
    /\ (AfterTry /\ transcript_parts = <<>>) => retval = None
    /\ (AfterTry /\ ~full_transcript.isNone /\ Blank(full_transcript.str)) => retval = None
    /\ pc = "done" => (ui = "result" <=> ~transcript.isNone)
    /\ (pc = "done" /\ transcript.isNone) => (ui = "no_text_error" /\ srt_content = <<>>)

\* two segments attempted, both without text, the run ended with the error shown
C5_Witness ==
    /\ pc = "done"
    /\ Len(attempts) = 2
    /\ transcript_parts = <<>>
    /\ full_transcript = Some(<<>>)
    /\ ui = "no_text_error"

\* C6: a file larger than 200 MiB, or with an extension whose lower case is not
\* supported, is rejected with an error and transcribe_video is never called: no
\* temporary file, no progress report, no extraction.
C6_RejectedBeforePipeline ==
    (uploaded # NoFile
        /\ (uploaded.size > 200 * 1024 * 1024
              \/ Lower(uploaded.ext) \notin SUPPORTED_VIDEO_FORMATS)) =>
        /\ pc = "rejected"
        /\ ui \in {"size_error", "format_error"}
        /\ uploaded.size > 200 * 1024 * 1024 => ui = "size_error"
        /\ temp_audio = "absent" /\ temp_video = "absent"
        /\ progress = <<>>
        /\ extract_outcome = "none"
        /\ transcript = None

\* an oversized file with a supported extension, rejected
C6_Witness ==
    /\ pc = "rejected"
    /\ uploaded.size > 200 * 1024 * 1024
    /\ uploaded.ext = <<".", "m", "p", "4">>

\* C7: when the video has no audio stream or decoding raises, transcribe_video
\* returns None without segmentation, without a recognition attempt and without
\* a transcript.
C7_ExtractionFailureAborts ==
    extract_outcome \in {"no_audio", "decode_error"} =>
        /\ AfterTry
        /\ retval = None
        /\ transcript = None
        /\ audio_len = -1
        /\ audio_chunks = <<>>
        /\ attempts = <<>>
        /\ transcript_parts = <<>>
        /\ full_transcript = None
        /\ progress = <<10>>
        /\ pc = "done" => ui = "no_text_error"

\* a run on a video without audio stream, ended
C7_Witness ==
    /\ pc = "done"
    /\ extract_outcome = "no_audio"
    /\ ui = "no_text_error"

\* the progress values of a complete run over n segments
ExpectedProgress(n) ==
    <<10, 20>> \o [k \in 1..n |-> 30 + ((60 * (k - 1)) \div n)] \o <<95, 100>>

Reported(v) == \E k \in 1..Len(progress) : progress[k] = v

\* C10: the progress values are non-decreasing and start with 10; 20 comes only
\* after a successful extraction; the value before segment i of n is
\* 30 + floor(60 * i / n), in 30..89; 95 and then 100 come only after all n
\* segments were attempted; a run that failed at extraction or segmentation
\* reports neither; a run with a blank transcript has reported 100 when it
\* returns None.
C10_ProgressMilestones ==
    LET n == Len(audio_chunks)
    IN  /\ progress # <<>> => progress[1] = 10
        /\ \A k \in 1..(Len(progress) - 1) : progress[k] <= progress[k + 1]
        /\ Reported(20) => extract_outcome = "ok"
        /\ Len(progress) <= 2 => progress = SubSeq(<<10, 20>>, 1, Len(progress))
        /\ Len(progress) > 2 =>
              (n >= 1 /\ progress = SubSeq(ExpectedProgress(n), 1, Len(progress)))
        /\ pc = "recognize" =>
              /\ progress[Len(progress)] = 30 + ((60 * i) \div n)
              /\ progress[Len(progress)] \in 30..89
              /\ Len(progress) = i + 3
        /\ Reported(95) => Len(attempts) = n
        /\ Reported(100) => (Reported(95) /\ progress[Len(progress)] = 100)
        /\ (AfterTry /\ (extract_outcome # "ok" \/ n = 0)) =>
              (~Reported(95) /\ ~Reported(100))
        /\ ~full_transcript.isNone => Reported(100)
        /\ (AfterTry /\ ~full_transcript.isNone /\ Blank(full_transcript.str)) =>
              (retval = None /\ progress = ExpectedProgress(n))

\* a complete run over three segments whose transcript is blank
C10_Witness ==
    /\ pc = "done"
    /\ progress = <<10, 20, 30, 50, 70, 95, 100>>
    /\ full_transcript = Some(<<>>)
    /\ transcript = None

-----------------------------------------------------------------------------
\* Properties of split_audio_into_chunks (checked under SpecSplit).

\* C8: with the waveform loaded, the result is the silence-based segments only
\* if split_on_silence returned at least 2 of them; otherwise it is the
\* fixed-length slicing: contiguous slices in order, slice k covering
\* [k * c, min((k + 1) * c, L)), each c long except possibly the last, which is
\* shorter and not empty.
C8_SilenceOrFixedSlices ==
    (pc = "split_done" /\ split_in.loaded) =>
        LET sil == split_in.silence
            c   == chunk_duration * 1000
            L   == audio_len
            n   == Len(audio_chunks)
        IN  IF ~sil.raised /\ sil.count >= 2
            THEN /\ n = sil.count
                 /\ \A k \in 1..n : audio_chunks[k] = [by |-> "silence", ord |-> k]
            ELSE /\ \A k \in 1..n :
                     /\ audio_chunks[k].by = "fixed"
                     /\ audio_chunks[k].lo = (k - 1) * c
                     /\ audio_chunks[k].hi = (IF k * c <= L THEN k * c ELSE L)
                     /\ audio_chunks[k].hi > audio_chunks[k].lo
                     /\ k < n => audio_chunks[k].hi - audio_chunks[k].lo = c
                     /\ k = n => audio_chunks[k].hi - audio_chunks[k].lo <= c
                     /\ k < n => audio_chunks[k + 1].lo = audio_chunks[k].hi
                 /\ n = 0 <=> L = 0
                 /\ n > 0 => (audio_chunks[1].lo = 0 /\ audio_chunks[n].hi = L)

\* one silence-based segment only: the fallback gives three slices, the last
\* one shorter
C8_Witness ==
    /\ pc = "split_done"
    /\ split_in = [loaded |-> TRUE, silence |-> [raised |-> FALSE, count |-> 1]]
    /\ Len(audio_chunks) = 3
    /\ audio_chunks[3].hi - audio_chunks[3].lo = 1

====
